---- MODULE Spec2Model ----
(***************************************************************************)
(* pathroute: all-pairs shortest paths (Floyd) with up to 4 shortest paths *)
(* per pair and up to 3 via-neighbor paths per pair.                       *)
(*                                                                         *)
(* Go slices are modelled as sequences; a Go index i is position i+1 of    *)
(* the sequence.  Matrices are functions over 0..N-1 so that the code's    *)
(* index arithmetic is kept as written.                                    *)
(***************************************************************************)
EXTENDS Integers, Sequences, FiniteSets, TLC

VARIABLES gj, budget, pc, g, err, r, fromIdx, sub, oldToNew, filled

vars == <<gj, budget, pc, g, err, r, fromIdx, sub, oldToNew, filled>>

(***************************************************************************)
(* Program constants.                                                      *)
(***************************************************************************)
MinWeight == 1
MaxWeight == 1000
\* math.MaxInt; every finite distance is at most N * MaxWeight, far below it.
Inf == 2147483647
MaxShortestPaths == 4
MaxViaNeighborPaths == 3

(***************************************************************************)
(* Bounds of the model.                                                    *)
(***************************************************************************)
\* edges the caller appends to a seed description before loading it
MaxExtraEdges == 1

NoGraph == [Nodes |-> <<>>, NameToIndex |-> <<>>, AdjMatrix |-> <<>>]
NoResult == [Results |-> <<>>, dist |-> <<>>, pred |-> <<>>]

Range(s) == {s[k] : k \in 1..Len(s)}

(***************************************************************************)
(* graph.Graph                                                             *)
(***************************************************************************)
NumNodes(gr) == Len(gr.Nodes)

Name(gr, i) == gr.Nodes[i + 1]

Weight(gr, i, j) == gr.AdjMatrix[i][j]

HasIndex(gr, name) == name \in DOMAIN gr.NameToIndex

Index(gr, name) == gr.NameToIndex[name]

RECURSIVE NeighborsFrom(_, _, _)
NeighborsFrom(gr, i, j) ==
    IF j >= NumNodes(gr) THEN <<>>
    ELSE (IF gr.AdjMatrix[i][j] > 0 THEN <<j>> ELSE <<>>) \o NeighborsFrom(gr, i, j + 1)

Neighbors(gr, i) == NeighborsFrom(gr, i, 0)

\* nameToIndex[n] = i for i, n := range nodes (the last write wins)
MakeNameToIndex(nodes) ==
    [n \in Range(nodes) |->
        CHOOSE i \in 0..(Len(nodes) - 1) :
            /\ nodes[i + 1] = n
            /\ \A k \in 0..(Len(nodes) - 1) : nodes[k + 1] = n => k <= i]

ZeroMatrix(N) == [i \in 0..(N - 1) |-> [j \in 0..(N - 1) |-> 0]]

(***************************************************************************)
(* graph.NewFromStruct                                                     *)
(***************************************************************************)
\* WeightOutOfRange with the upper limit excluded
WeightOutOfRange_Strict(e) == e.Weight < MinWeight \/ e.Weight >= MaxWeight

WeightOutOfRange(e) == e.Weight < MinWeight \/ e.Weight > MaxWeight

\* if !seen[n] { seen[n] = true; nodes = append(nodes, n) }
AppendUnseen(nodes, n) == IF n \in Range(nodes) THEN nodes ELSE Append(nodes, n)

RECURSIVE NodesFromNames(_, _, _)
NodesFromNames(nodes, names, k) ==
    IF k > Len(names) THEN nodes
    ELSE NodesFromNames(AppendUnseen(nodes, names[k]), names, k + 1)

\* NodesFromEdges that takes the To endpoint of an edge before its From
RECURSIVE NodesFromEdges_ToFirst(_, _, _)
NodesFromEdges_ToFirst(nodes, edges, k) ==
    IF k > Len(edges) THEN nodes
    ELSE NodesFromEdges_ToFirst(
            AppendUnseen(AppendUnseen(nodes, edges[k].To), edges[k].From),
            edges, k + 1)

RECURSIVE NodesFromEdges(_, _, _)
NodesFromEdges(nodes, edges, k) ==
    IF k > Len(edges) THEN nodes
    ELSE NodesFromEdges(
            AppendUnseen(AppendUnseen(nodes, edges[k].From), edges[k].To),
            edges, k + 1)

CollectNodes(d) == NodesFromEdges(NodesFromNames(<<>>, d.Nodes, 1), d.Edges, 1)

RECURSIVE FillAdj(_, _, _, _)
FillAdj(adj, nameToIndex, edges, k) ==
    IF k > Len(edges) THEN adj
    ELSE LET from == nameToIndex[edges[k].From]
             to == nameToIndex[edges[k].To]
         IN FillAdj([adj EXCEPT ![from][to] = edges[k].Weight], nameToIndex, edges, k + 1)

NewFromStruct(d) ==
    IF \E k \in 1..Len(d.Edges) : WeightOutOfRange(d.Edges[k])
    THEN [g |-> NoGraph, err |-> "weight out of range"]
    ELSE LET nodes == CollectNodes(d)
             nameToIndex == MakeNameToIndex(nodes)
         IN IF Len(nodes) = 0
            THEN [g |-> NoGraph, err |-> "graph has no nodes"]
            ELSE [g |-> [Nodes |-> nodes,
                         NameToIndex |-> nameToIndex,
                         AdjMatrix |-> FillAdj(ZeroMatrix(Len(nodes)), nameToIndex, d.Edges, 1)],
                  err |-> "nil"]

(***************************************************************************)
(* graph.Graph.CopyWithoutNode                                             *)
(***************************************************************************)
\* lines 135-142: one pass over the old indices builds newNodes and oldToNew
RECURSIVE CopyScan(_, _, _, _)
CopyScan(gr, excludeIdx, i, acc) ==
    IF i >= NumNodes(gr) THEN acc
    ELSE IF i = excludeIdx
         THEN CopyScan(gr, excludeIdx, i + 1,
                       [acc EXCEPT !.oldToNew = acc.oldToNew @@ (i :> -1)])
         ELSE CopyScan(gr, excludeIdx, i + 1,
                       [newNodes |-> Append(acc.newNodes, gr.Nodes[i + 1]),
                        oldToNew |-> acc.oldToNew @@ (i :> Len(acc.newNodes))])

\* CopyCell that writes the transposed cell
CopyCell_Transposed(adj, gr, excludeIdx, otn, i, j) ==
    IF j = excludeIdx \/ gr.AdjMatrix[i][j] = 0 THEN adj
    ELSE [adj EXCEPT ![otn[j]][otn[i]] = gr.AdjMatrix[i][j]]

\* lines 154-158: the body of the inner loop for one cell (i,j)
CopyCell(adj, gr, excludeIdx, otn, i, j) ==
    IF j = excludeIdx \/ gr.AdjMatrix[i][j] = 0 THEN adj
    ELSE [adj EXCEPT ![otn[i]][otn[j]] = gr.AdjMatrix[i][j]]

\* lines 153-159: the inner loop over j for one retained row i
RECURSIVE CopyRow(_, _, _, _, _, _)
CopyRow(adj, gr, excludeIdx, otn, i, j) ==
    IF j >= NumNodes(gr) THEN adj
    ELSE CopyRow(CopyCell(adj, gr, excludeIdx, otn, i, j), gr, excludeIdx, otn, i, j + 1)

\* lines 148-160: the outer loop over i
RECURSIVE CopyRows(_, _, _, _, _)
CopyRows(adj, gr, excludeIdx, otn, i) ==
    IF i >= NumNodes(gr) THEN adj
    ELSE IF i = excludeIdx
         THEN CopyRows(adj, gr, excludeIdx, otn, i + 1)
         ELSE CopyRows(CopyRow(adj, gr, excludeIdx, otn, i, 0), gr, excludeIdx, otn, i + 1)

\* CopyWithoutNode that keeps the excluded node
CopyWithoutNode_KeepAll(gr, excludeIdx) ==
    [sub |-> gr, oldToNew |-> [i \in 0..(NumNodes(gr) - 1) |-> i]]

CopyWithoutNode(gr, excludeIdx) ==
    LET scan == CopyScan(gr, excludeIdx, 0, [newNodes |-> <<>>, oldToNew |-> <<>>])
        newNodes == scan.newNodes
        otn == scan.oldToNew
    IN [sub |-> [Nodes |-> newNodes,
                 NameToIndex |-> MakeNameToIndex(newNodes),
                 AdjMatrix |-> CopyRows(ZeroMatrix(Len(newNodes)), gr, excludeIdx, otn, 0)],
        oldToNew |-> otn]

(***************************************************************************)
(* floyd.RunFloyd: distance matrix                                         *)
(***************************************************************************)
InitDist(gr) ==
    [i \in 0..(NumNodes(gr) - 1) |-> [j \in 0..(NumNodes(gr) - 1) |->
        IF i = j THEN 0
        ELSE IF Weight(gr, i, j) > 0 THEN Weight(gr, i, j)
        ELSE Inf]]

\* RelaxCell with an unreachable cell (i,j) never lowered
RelaxCell_KeepInf(dist, k, i, j) ==
    IF dist[k][j] = Inf THEN dist
    ELSE LET d == dist[i][k] + dist[k][j]
         IN IF dist[i][j] # Inf /\ d < dist[i][j] THEN [dist EXCEPT ![i][j] = d] ELSE dist

\* the relaxation test of one cell (i,j) through the midpoint k
RelaxCell(dist, k, i, j) ==
    IF dist[k][j] = Inf THEN dist
    ELSE LET d == dist[i][k] + dist[k][j]
         IN IF d < dist[i][j] THEN [dist EXCEPT ![i][j] = d] ELSE dist

RECURSIVE RelaxJ(_, _, _, _, _)
RelaxJ(dist, N, k, i, j) ==
    IF j >= N THEN dist
    ELSE RelaxJ(RelaxCell(dist, k, i, j), N, k, i, j + 1)

RECURSIVE RelaxI(_, _, _, _)
RelaxI(dist, N, k, i) ==
    IF i >= N THEN dist
    ELSE IF dist[i][k] = Inf THEN RelaxI(dist, N, k, i + 1)
    ELSE RelaxI(RelaxJ(dist, N, k, i, 0), N, k, i + 1)

RECURSIVE RelaxK(_, _, _)
RelaxK(dist, N, k) ==
    IF k >= N THEN dist
    ELSE RelaxK(RelaxI(dist, N, k, 0), N, k + 1)

FloydDist(gr) == RelaxK(InitDist(gr), NumNodes(gr), 0)

(***************************************************************************)
(* floyd.RunFloyd: predecessor lists                                       *)
(***************************************************************************)
IsPred(gr, dist, i, j, m) ==
    /\ m # i
    /\ Weight(gr, m, j) > 0
    /\ dist[i][m] # Inf
    /\ dist[i][m] + Weight(gr, m, j) = dist[i][j]

RECURSIVE PredScan(_, _, _, _, _)
PredScan(gr, dist, i, j, m) ==
    IF m >= NumNodes(gr) THEN <<>>
    ELSE (IF IsPred(gr, dist, i, j, m) THEN <<m>> ELSE <<>>)
         \o PredScan(gr, dist, i, j, m + 1)

BuildPred(gr, dist) ==
    [i \in 0..(NumNodes(gr) - 1) |-> [j \in 0..(NumNodes(gr) - 1) |->
        IF i = j \/ dist[i][j] = Inf THEN <<>>
        ELSE PredScan(gr, dist, i, j, 0)]]

(***************************************************************************)
(* floyd.pathKey, floyd.collectPaths, floyd.enumeratePaths                 *)
(***************************************************************************)
RECURSIVE pathKeyFrom(_, _, _)
pathKeyFrom(path, k, s) ==
    IF k > Len(path) THEN s
    ELSE pathKeyFrom(path, k + 1, (IF s # "" THEN s \o "|" ELSE s) \o path[k])

pathKey(path) == pathKeyFrom(path, 1, "")

\* if !seen[key] { seen[key] = true; *out = append(*out, path) }
AddPath(acc, path) ==
    IF pathKey(path) \in acc.seen THEN acc
    ELSE [out |-> Append(acc.out, path), seen |-> acc.seen \cup {pathKey(path)}]

\* DirectIsShortest without the comparison with the distance
DirectIsShortest_AnyEdge(gr, dist, i, j) == Weight(gr, i, j) > 0

\* if w := g.Weight(i, j); w > 0 && w == dist[i][j]
DirectIsShortest(gr, dist, i, j) ==
    Weight(gr, i, j) > 0 /\ Weight(gr, i, j) = dist[i][j]

RECURSIVE collectPaths(_, _, _, _, _, _, _, _)
RECURSIVE collectPreds(_, _, _, _, _, _, _, _, _)
collectPaths(gr, dist, pred, i, j, suffix, acc, maxPaths) ==
    IF Len(acc.out) >= maxPaths THEN acc
    ELSE IF i = j THEN AddPath(acc, <<Name(gr, i)>> \o suffix)
    ELSE LET acc1 == IF DirectIsShortest(gr, dist, i, j)
                     THEN AddPath(acc, <<Name(gr, i)>> \o suffix)
                     ELSE acc
         IN collectPreds(gr, dist, pred, i, j, suffix, acc1, maxPaths, 1)

\* for _, m := range pred[i][j]
collectPreds(gr, dist, pred, i, j, suffix, acc, maxPaths, k) ==
    IF k > Len(pred[i][j]) THEN acc
    ELSE LET m == pred[i][j][k]
             tail == <<Name(gr, m)>> \o suffix
         IN collectPreds(gr, dist, pred, i, j, suffix,
                         collectPaths(gr, dist, pred, i, m, tail, acc, maxPaths),
                         maxPaths, k + 1)

enumeratePaths(gr, dist, pred, i, j, maxPaths) ==
    IF i = j THEN << <<Name(gr, i)>> >>
    ELSE IF dist[i][j] = Inf THEN <<>>
    ELSE collectPaths(gr, dist, pred, i, j, <<Name(gr, j)>>,
                      [out |-> <<>>, seen |-> {}], maxPaths).out

(***************************************************************************)
(* floyd.RunFloyd                                                          *)
(***************************************************************************)
\* MakePairResult that reports the raw matrix cell
MakePairResult_RawDistance(gr, dist, pred, i, j) ==
    [From |-> Name(gr, i),
     To |-> Name(gr, j),
     Distance |-> dist[i][j],
     Paths |-> IF dist[i][j] = Inf THEN <<>>
               ELSE enumeratePaths(gr, dist, pred, i, j, MaxShortestPaths),
     ViaNeighborPaths |-> <<>>]

MakePairResult(gr, dist, pred, i, j) ==
    [From |-> Name(gr, i),
     To |-> Name(gr, j),
     Distance |-> IF dist[i][j] = Inf THEN -1 ELSE dist[i][j],
     Paths |-> IF dist[i][j] = Inf THEN <<>>
               ELSE enumeratePaths(gr, dist, pred, i, j, MaxShortestPaths),
     ViaNeighborPaths |-> <<>>]

RunFloyd(gr) ==
    LET N == NumNodes(gr)
        dist == FloydDist(gr)
        pred == BuildPred(gr, dist)
    IN [Results |-> [k \in 1..(N * N) |->
                        MakePairResult(gr, dist, pred, (k - 1) \div N, (k - 1) % N)],
        dist |-> dist,
        pred |-> pred]

(***************************************************************************)
(* floyd.runFloydOnSubgraph, floyd.enumeratePathsOnSub                     *)
(***************************************************************************)
runFloydOnSubgraph(gr) ==
    LET dist == FloydDist(gr)
    IN [dist |-> dist, pred |-> BuildPred(gr, dist)]

enumeratePathsOnSub(gr, dist, pred, i, j, maxPaths) ==
    IF i = j THEN << <<Name(gr, i)>> >>
    ELSE IF dist[i][j] = Inf THEN <<>>
    ELSE collectPaths(gr, dist, pred, i, j, <<Name(gr, j)>>,
                      [out |-> <<>>, seen |-> {}], maxPaths).out

(***************************************************************************)
(* floyd.dedupPathsByKey                                                   *)
(***************************************************************************)
Swap(c, i, j) == [c EXCEPT ![i] = c[j], ![j] = c[i]]

\* inner loop of the sort: j runs over the positions after i
RECURSIVE SortInner(_, _, _)
SortInner(c, i, j) ==
    IF j > Len(c) THEN c
    ELSE SortInner(IF c[j].Distance < c[i].Distance THEN Swap(c, i, j) ELSE c, i, j + 1)

RECURSIVE SortOuter(_, _)
SortOuter(c, i) ==
    IF i > Len(c) THEN c
    ELSE SortOuter(SortInner(c, i, i + 1), i + 1)

\* SortByDistance that leaves the candidates in generation order
SortByDistance_Unsorted(candidates) == candidates

SortByDistance(candidates) == SortOuter(candidates, 1)

RECURSIVE DedupScan(_, _, _, _, _)
DedupScan(c, k, result, seen, max) ==
    IF k > Len(c) \/ Len(result) >= max THEN result
    ELSE IF pathKey(c[k].Path) \in seen THEN DedupScan(c, k + 1, result, seen, max)
    ELSE DedupScan(c, k + 1, Append(result, c[k]), seen \cup {pathKey(c[k].Path)}, max)

\* dedupPathsByKey with the cap tested one entry too late
dedupPathsByKey_LateCap(candidates, max) ==
    IF Len(candidates) = 0 THEN <<>>
    ELSE DedupScan(SortByDistance(candidates), 1, <<>>, {}, max + 1)

dedupPathsByKey(candidates, max) ==
    IF Len(candidates) = 0 THEN <<>>
    ELSE DedupScan(SortByDistance(candidates), 1, <<>>, {}, max)

(***************************************************************************)
(* floyd.AllPairsResult.FillViaNeighborPaths: the body of the loop over    *)
(* fromIdx                                                                 *)
(***************************************************************************)
\* NeighborCandidates without the weight of the first hop in the total
NeighborCandidates_NoFirstHop(gr, from, nb, newTo, cp, sf) ==
    LET newNb == cp.oldToNew[nb]
    IN IF newNb < 0 THEN <<>>
       ELSE IF sf.dist[newNb][newTo] = Inf THEN <<>>
       ELSE LET d == sf.dist[newNb][newTo]
                paths == enumeratePathsOnSub(cp.sub, sf.dist, sf.pred, newNb, newTo,
                                             MaxViaNeighborPaths)
            IN [k \in 1..Len(paths) |->
                    [Path |-> <<Name(gr, from)>> \o paths[k], Distance |-> d]]

\* lines 199-212: the candidates that one out-neighbor nb contributes
NeighborCandidates(gr, from, nb, newTo, cp, sf) ==
    LET wSN == Weight(gr, from, nb)
        newNb == cp.oldToNew[nb]
    IN IF newNb < 0 THEN <<>>
       ELSE IF sf.dist[newNb][newTo] = Inf THEN <<>>
       ELSE LET d == wSN + sf.dist[newNb][newTo]
                paths == enumeratePathsOnSub(cp.sub, sf.dist, sf.pred, newNb, newTo,
                                             MaxViaNeighborPaths)
            IN [k \in 1..Len(paths) |->
                    [Path |-> <<Name(gr, from)>> \o paths[k], Distance |-> d]]

\* for _, nb := range neighbors
RECURSIVE PoolCandidates(_, _, _, _, _, _, _)
PoolCandidates(gr, from, neighbors, k, newTo, cp, sf) ==
    IF k > Len(neighbors) THEN <<>>
    ELSE NeighborCandidates(gr, from, neighbors[k], newTo, cp, sf)
         \o PoolCandidates(gr, from, neighbors, k + 1, newTo, cp, sf)

\* WriteBack that finds the record by its To name alone
WriteBack_ToOnly(results, fromName, toName, dedup) ==
    IF \E i \in 1..Len(results) : results[i].To = toName
    THEN LET i == CHOOSE i \in 1..Len(results) :
                    /\ results[i].To = toName
                    /\ \A h \in 1..(i - 1) : results[h].To # toName
         IN [results EXCEPT ![i].ViaNeighborPaths = dedup]
    ELSE results

\* lines 217-222: the first record whose From and To match gets the list
WriteBack(results, fromName, toName, dedup) ==
    IF \E i \in 1..Len(results) : results[i].From = fromName /\ results[i].To = toName
    THEN LET i == CHOOSE i \in 1..Len(results) :
                    /\ results[i].From = fromName /\ results[i].To = toName
                    /\ \A h \in 1..(i - 1) :
                          ~(results[h].From = fromName /\ results[h].To = toName)
         IN [results EXCEPT ![i].ViaNeighborPaths = dedup]
    ELSE results

\* for toIdx := 0; toIdx < N; toIdx++
RECURSIVE FillTo(_, _, _, _, _, _, _)
FillTo(gr, results, from, toIdx, neighbors, cp, sf) ==
    IF toIdx >= NumNodes(gr) THEN results
    ELSE IF toIdx = from \/ cp.oldToNew[toIdx] < 0
         THEN FillTo(gr, results, from, toIdx + 1, neighbors, cp, sf)
         ELSE LET candidates == PoolCandidates(gr, from, neighbors, 1,
                                               cp.oldToNew[toIdx], cp, sf)
                  dedup == dedupPathsByKey(candidates, MaxViaNeighborPaths)
              IN FillTo(gr,
                        WriteBack(results, Name(gr, from), Name(gr, toIdx), dedup),
                        from, toIdx + 1, neighbors, cp, sf)

FillSource(gr, results, from) ==
    LET neighbors == Neighbors(gr, from)
    IN IF Len(neighbors) = 0
       THEN [Results |-> results, sub |-> NoGraph, oldToNew |-> <<>>]
       ELSE LET cp == CopyWithoutNode(gr, from)
                sf == runFloydOnSubgraph(cp.sub)
            IN [Results |-> FillTo(gr, results, from, 0, neighbors, cp, sf),
                sub |-> cp.sub,
                oldToNew |-> cp.oldToNew]

(***************************************************************************)
(* Graph descriptions handed to the loader.                                *)
(***************************************************************************)
E(f, t, w) == [From |-> f, To |-> t, Weight |-> w]

\* floyd tests and spec scenarios
ScenarioA == [Nodes |-> <<"A", "B", "C">>,
              Edges |-> <<E("A", "B", 50), E("B", "A", 80), E("A", "C", 100), E("B", "C", 20)>>]
ScenarioB == [Nodes |-> <<"A", "C", "D", "E", "F">>,
              Edges |-> <<E("A", "C", 10), E("A", "E", 10), E("C", "D", 10),
                          E("E", "D", 10), E("D", "F", 10)>>]
ScenarioC == [Nodes |-> <<"A", "B">>, Edges |-> <<E("A", "B", 1)>>]
ScenarioD == [Nodes |-> <<"A", "B", "C", "D">>,
              Edges |-> <<E("A", "B", 10), E("A", "C", 10), E("B", "D", 10), E("C", "D", 10)>>]
ScenarioE == [Nodes |-> <<"A", "B">>, Edges |-> <<E("B", "A", 10)>>]
MaxFourPathsGraph ==
    [Nodes |-> <<"A", "B", "C", "D", "E">>,
     Edges |-> <<E("A", "B", 1), E("A", "C", 1), E("A", "D", 1),
                 E("B", "E", 1), E("C", "E", 1), E("D", "E", 1)>>]
\* every path from a lower to a higher node costs the index difference:
\* 8 shortest paths from A to E
LadderGraph ==
    [Nodes |-> <<"A", "B", "C", "D", "E">>,
     Edges |-> <<E("A", "B", 1), E("A", "C", 2), E("A", "D", 3), E("A", "E", 4),
                 E("B", "C", 1), E("B", "D", 2), E("B", "E", 3),
                 E("C", "D", 1), E("C", "E", 2), E("D", "E", 1)>>]
\* a node name that contains the separator of pathKey
PipeGraph ==
    [Nodes |-> <<>>,
     Edges |-> <<E("A", "B", 1), E("B", "C", 1), E("C", "D", 1),
                 E("A", "B|C", 1), E("B|C", "D", 2)>>]
\* graph tests
NodesFromEdgesGraph ==
    [Nodes |-> <<>>, Edges |-> <<E("X", "Y", 10), E("Y", "Z", 20)>>]
BoundaryGraph ==
    [Nodes |-> <<"B", "A", "B">>, Edges |-> <<E("A", "B", 1), E("B", "A", 1000), E("A", "B", 2)>>]
EmptyDescription == [Nodes |-> <<>>, Edges |-> <<>>]
BadMiddle ==
    [Nodes |-> <<"A">>, Edges |-> <<E("A", "B", 1), E("B", "C", 0), E("C", "A", 2)>>]
TooHeavy == [Nodes |-> <<"A", "B">>, Edges |-> <<E("A", "B", 1001)>>]

SeedInputs ==
    {ScenarioA, ScenarioB, ScenarioC, ScenarioD, ScenarioE, MaxFourPathsGraph,
     LadderGraph, PipeGraph, NodesFromEdgesGraph, BoundaryGraph, EmptyDescription,
     BadMiddle, TooHeavy}

\* every graph over three declared nodes with edge weights 1 and 2 between
\* different nodes and any set of self-loops (weight 0 stands for "no such
\* edge"; the engine only tests a self-loop's weight for being positive)
SmallNames == <<"A", "B", "C">>
SmallWeights == {0, 1, 2}
SmallLoopWeights == {0, 1}
SmallPairs == {<<a, b>> : a \in 1..Len(SmallNames), b \in 1..Len(SmallNames)}

RECURSIVE EdgesOf(_, _)
EdgesOf(w, k) ==
    IF k > Len(SmallNames) * Len(SmallNames) THEN <<>>
    ELSE LET a == ((k - 1) \div Len(SmallNames)) + 1
             b == ((k - 1) % Len(SmallNames)) + 1
         IN (IF w[<<a, b>>] > 0 THEN <<E(SmallNames[a], SmallNames[b], w[<<a, b>>])>> ELSE <<>>)
            \o EdgesOf(w, k + 1)

SmallInputs ==
    {[Nodes |-> SmallNames, Edges |-> EdgesOf(w, 1)] :
        w \in {w \in [SmallPairs -> SmallWeights] :
                 \A a \in 1..Len(SmallNames) : w[<<a, a>>] \in SmallLoopWeights}}

\* endpoints and weights of the edges a caller appends to a seed
ExtraNames == {"A", "B", "C", "D"}
ExtraWeights == {0, 1}

(***************************************************************************)
(* The program: build a description, load it, RunFloyd,                    *)
(* FillViaNeighborPaths.                                                   *)
(***************************************************************************)
Init ==
    /\ \/ gj \in SeedInputs /\ budget = MaxExtraEdges
       \/ gj \in SmallInputs /\ budget = 0
    /\ pc = "input"
    /\ g = NoGraph
    /\ err = "nil"
    /\ r = NoResult
    /\ fromIdx = 0
    /\ sub = NoGraph
    /\ oldToNew = <<>>
    /\ filled = {}

\* the caller appends one more edge to the description
AddEdge ==
    /\ pc = "input"
    /\ budget > 0
    /\ \E f \in ExtraNames, t \in ExtraNames, w \in ExtraWeights :
          gj' = [gj EXCEPT !.Edges = Append(@, E(f, t, w))]
    /\ budget' = budget - 1
    /\ UNCHANGED <<pc, g, err, r, fromIdx, sub, oldToNew, filled>>

\* g, err := graph.NewFromStruct(gj)
Load ==
    /\ pc = "input"
    /\ LET res == NewFromStruct(gj)
       IN /\ g' = res.g
          /\ err' = res.err
          /\ pc' = IF res.err = "nil" THEN "loaded" ELSE "failed"
    /\ UNCHANGED <<gj, budget, r, fromIdx, sub, oldToNew, filled>>

\* r := floyd.RunFloyd(g)
Floyd ==
    /\ pc = "loaded"
    /\ r' = RunFloyd(g)
    /\ pc' = "fill"
    /\ fromIdx' = 0
    /\ UNCHANGED <<gj, budget, g, err, sub, oldToNew, filled>>

\* one iteration of the loop over fromIdx in r.FillViaNeighborPaths()
FillStep ==
    /\ pc = "fill"
    /\ fromIdx < NumNodes(g)
    /\ LET res == FillSource(g, r.Results, fromIdx)
       IN /\ r' = [r EXCEPT !.Results = res.Results]
          /\ sub' = res.sub
          /\ oldToNew' = res.oldToNew
    /\ fromIdx' = fromIdx + 1
    /\ filled' = filled \cup {fromIdx}
    /\ pc' = IF fromIdx + 1 >= NumNodes(g) THEN "done" ELSE "fill"
    /\ UNCHANGED <<gj, budget, g, err>>

Next == AddEdge \/ Load \/ Floyd \/ FillStep

Spec == Init /\ [][Next]_vars

(***************************************************************************)
(* The same program with the iterations of the loop over fromIdx run as    *)
(* independent per-source steps, one source at a time in any order: each   *)
(* step is the loop body of FillViaNeighborPaths for one source that has   *)
(* not been processed yet.  fromIdx, sub and oldToNew are locals of a      *)
(* step and are not kept.                                                  *)
(***************************************************************************)
InitAnyOrder ==
    /\ gj \in SeedInputs \cup SmallInputs
    /\ budget = 0
    /\ pc = "input"
    /\ g = NoGraph
    /\ err = "nil"
    /\ r = NoResult
    /\ fromIdx = 0
    /\ sub = NoGraph
    /\ oldToNew = <<>>
    /\ filled = {}

FillAny ==
    /\ pc = "fill"
    /\ \E S \in (0..(NumNodes(g) - 1)) \ filled :
          /\ r' = [r EXCEPT !.Results = FillSource(g, r.Results, S).Results]
          /\ filled' = filled \cup {S}
          /\ pc' = IF filled \cup {S} = 0..(NumNodes(g) - 1) THEN "done" ELSE "fill"
    /\ UNCHANGED <<gj, budget, g, err, fromIdx, sub, oldToNew>>

NextAnyOrder == Load \/ Floyd \/ FillAny

SpecAnyOrder == InitAnyOrder /\ [][NextAnyOrder]_vars

(***************************************************************************)
(* Reference notions the properties are stated with: directed paths of the *)
(* loaded graph, enumerated node by node, independently of the matrices    *)
(* the engine computes.  With weights >= 1 a path that repeats a node is   *)
(* never lighter than the simple path it contains, so minima are taken     *)
(* over simple paths.                                                      *)
(***************************************************************************)
Idx(gr) == 0..(NumNodes(gr) - 1)

EdgeExists(gr, a, b) == gr.AdjMatrix[a][b] >= 1

\* all simple paths (sequences of indices) that extend p and end at j
RECURSIVE SimplePathsExt(_, _, _)
SimplePathsExt(gr, p, j) ==
    IF p[Len(p)] = j THEN {p}
    ELSE UNION {SimplePathsExt(gr, Append(p, n), j) :
                  n \in {n \in Idx(gr) : EdgeExists(gr, p[Len(p)], n) /\ n \notin Range(p)}}

SimplePaths(gr, i, j) == SimplePathsExt(gr, <<i>>, j)

RECURSIVE IdxPathWeight(_, _)
IdxPathWeight(gr, p) ==
    IF Len(p) <= 1 THEN 0
    ELSE gr.AdjMatrix[p[1]][p[2]] + IdxPathWeight(gr, Tail(p))

Reachable(gr, i, j) == SimplePaths(gr, i, j) # {}

MinPathWeight(gr, i, j) ==
    LET ws == {IdxPathWeight(gr, p) : p \in SimplePaths(gr, i, j)}
    IN CHOOSE w \in ws : \A v \in ws : w <= v

ShortestPaths(gr, i, j) ==
    {p \in SimplePaths(gr, i, j) : IdxPathWeight(gr, p) = MinPathWeight(gr, i, j)}

PathNames(gr, p) == [k \in 1..Len(p) |-> gr.Nodes[p[k] + 1]]

\* index of a node name, read off the node table
IdxOfName(gr, n) == CHOOSE i \in Idx(gr) : gr.Nodes[i + 1] = n

\* the record RunFloyd appended for the pair (i,j)
Rec(i, j) == r.Results[i * NumNodes(g) + j + 1]

\* a sequence of names is a directed route of gr
IsRoute(gr, path) ==
    /\ Len(path) >= 1
    /\ \A k \in 1..Len(path) : path[k] \in Range(gr.Nodes)
    /\ \A k \in 1..(Len(path) - 1) :
          EdgeExists(gr, IdxOfName(gr, path[k]), IdxOfName(gr, path[k + 1]))

RouteWeight(gr, path) == IdxPathWeight(gr, [k \in 1..Len(path) |-> IdxOfName(gr, path[k])])

AfterFloyd == pc \in {"fill", "done"}

(***************************************************************************)
(* C1: for every loaded graph and every ordered pair (i,j) the distance    *)
(* RunFloyd computes is the minimum total weight over the directed paths   *)
(* from i to j, is 0 when i = j, and is the infinite sentinel (reported as *)
(* -1) exactly when no directed path from i to j exists.                   *)
(***************************************************************************)
C1_FloydDistanceIsShortest ==
    AfterFloyd =>
        \A i \in Idx(g), j \in Idx(g) :
            /\ Rec(i, j).From = Name(g, i)
            /\ Rec(i, j).To = Name(g, j)
            /\ (i = j => r.dist[i][j] = 0 /\ Rec(i, j).Distance = 0)
            /\ (Reachable(g, i, j) =>
                   /\ r.dist[i][j] = MinPathWeight(g, i, j)
                   /\ Rec(i, j).Distance = MinPathWeight(g, i, j))
            /\ (r.dist[i][j] = Inf <=> ~Reachable(g, i, j))
            /\ (Rec(i, j).Distance = -1 <=> ~Reachable(g, i, j))

\* a graph with a self-loop, a cycle, an unreachable pair and a pair whose
\* direct edge is heavier than a detour
C1_Witness ==
    /\ pc = "done"
    /\ \E i \in Idx(g) : EdgeExists(g, i, i)
    /\ \E i \in Idx(g), j \in Idx(g) : i # j /\ EdgeExists(g, i, j) /\ EdgeExists(g, j, i)
    /\ \E i \in Idx(g), j \in Idx(g) : Rec(i, j).Distance = -1
    /\ \E i \in Idx(g), j \in Idx(g) :
          i # j /\ EdgeExists(g, i, j) /\ Rec(i, j).Distance < Weight(g, i, j)

C3_ScenarioA ==
    (AfterFloyd /\ gj = ScenarioA) =>
        /\ Rec(0, 1).Distance = 50
        /\ Rec(1, 0).Distance = 80
        /\ Rec(0, 2).Distance = 70
        /\ Len(Rec(0, 2).Paths) >= 2
        /\ Rec(0, 2).Paths[1] = <<"A", "B", "C">>
        /\ RouteWeight(g, Rec(0, 2).Paths[1]) = 70
        /\ Rec(0, 2).Paths[2] = <<"A", "C">>
        /\ RouteWeight(g, Rec(0, 2).Paths[2]) = 100

(***************************************************************************)
(* C4: after RunFloyd and FillViaNeighborPaths the via-neighbor list of    *)
(* every pair (S,D) is sorted ascending by total distance, and entries of  *)
(* equal distance appear in generation order: lower-index out-neighbor of  *)
(* S first, and for one neighbor in the order the enumerator produced them.*)
(***************************************************************************)
\* the candidates pooled for (S,D), in the order the loop generates them
GeneratedPool(S, D) ==
    LET cp == CopyWithoutNode(g, S)
        sf == runFloydOnSubgraph(cp.sub)
    IN PoolCandidates(g, S, Neighbors(g, S), 1, cp.oldToNew[D], cp, sf)

FirstPos(seq, x) == CHOOSE k \in 1..Len(seq) : seq[k] = x /\ \A h \in 1..(k - 1) : seq[h] # x

C4_ViaSortedStable ==
    pc = "done" =>
        \A S \in Idx(g), D \in Idx(g) :
            LET via == Rec(S, D).ViaNeighborPaths
            IN \A a \in 1..Len(via), b \in 1..Len(via) :
                  a < b =>
                     /\ via[a].Distance <= via[b].Distance
                     /\ via[a].Distance = via[b].Distance =>
                           /\ via[a] \in Range(GeneratedPool(S, D))
                           /\ via[b] \in Range(GeneratedPool(S, D))
                           /\ FirstPos(GeneratedPool(S, D), via[a])
                                 < FirstPos(GeneratedPool(S, D), via[b])

(***************************************************************************)
(* C5: for every ordered pair (i,j) with a finite distance the paths list  *)
(* holds exactly min(4, P) entries, P being the number of distinct         *)
(* directed paths from i to j whose total weight equals the distance.      *)
(***************************************************************************)
Min(a, b) == IF a <= b THEN a ELSE b

C5_PathCount ==
    AfterFloyd =>
        \A i \in Idx(g), j \in Idx(g) :
            Rec(i, j).Distance >= 0 =>
                Len(Rec(i, j).Paths) =
                    Min(MaxShortestPaths, Cardinality(ShortestPaths(g, i, j)))

(***************************************************************************)
(* C6: in every result set no pair's paths list has more than 4 entries    *)
(* and no pair's via-neighbor list has more than 3 entries, however many   *)
(* equal-cost paths or out-neighbors exist.                                *)
(***************************************************************************)
C6_ListCaps ==
    \A k \in 1..Len(r.Results) :
        /\ Len(r.Results[k].Paths) <= 4
        /\ Len(r.Results[k].ViaNeighborPaths) <= 3

\* a pair with more than 4 shortest paths and more than 3 distinct
\* candidates, whose lists are cut to 4 and to 3
C6_Witness ==
    /\ pc = "done"
    /\ \E S \in Idx(g), D \in Idx(g) :
          /\ S # D
          /\ Cardinality(ShortestPaths(g, S, D)) > 4
          /\ Len(Rec(S, D).Paths) = 4
          /\ Cardinality({c.Path : c \in Range(GeneratedPool(S, D))}) > 3
          /\ Len(Rec(S, D).ViaNeighborPaths) = 3

(***************************************************************************)
(* C7: every via-neighbor path recorded for a pair (S,D) has S as first    *)
(* element, an out-neighbor of S as second element, D as last element and  *)
(* S at no other position, also when S has a self-loop or lies on a cycle  *)
(* through its neighbors.                                                  *)
(***************************************************************************)
C7_ViaPathShape ==
    AfterFloyd =>
        \A S \in Idx(g), D \in Idx(g) :
            \A k \in 1..Len(Rec(S, D).ViaNeighborPaths) :
                LET path == Rec(S, D).ViaNeighborPaths[k].Path
                IN /\ Len(path) >= 2
                   /\ path[1] = Name(g, S)
                   /\ \E n \in Idx(g) : EdgeExists(g, S, n) /\ path[2] = Name(g, n)
                   /\ path[Len(path)] = Name(g, D)
                   /\ \A h \in 2..Len(path) : path[h] # Name(g, S)

\* S has a self-loop and a neighbor with an edge back to S, and a
\* via-neighbor path of S was recorded
C7_Witness ==
    /\ pc = "done"
    /\ \E S \in Idx(g), n \in Idx(g), D \in Idx(g) :
          /\ EdgeExists(g, S, S)
          /\ n # S /\ EdgeExists(g, S, n) /\ EdgeExists(g, n, S)
          /\ D # S /\ D # n
          /\ Len(Rec(S, D).ViaNeighborPaths) >= 1

(***************************************************************************)
(* C8: for every ordered pair (i,j) with i # j and no directed path from i *)
(* to j the record has distance -1, an empty paths list and an empty       *)
(* via-neighbor list; a source without outgoing edges has an empty         *)
(* via-neighbor list for every destination.                                *)
(***************************************************************************)
C8_UnreachableIsEmpty ==
    pc = "done" =>
        \A i \in Idx(g), j \in Idx(g) :
            /\ (i # j /\ ~Reachable(g, i, j)) =>
                  /\ Rec(i, j).Distance = -1
                  /\ Rec(i, j).Paths = <<>>
                  /\ Rec(i, j).ViaNeighborPaths = <<>>
            /\ (\A n \in Idx(g) : ~EdgeExists(g, i, n)) =>
                  Rec(i, j).ViaNeighborPaths = <<>>

\* a source without outgoing edges, and an unreachable pair whose source
\* has neighbors and via-neighbor paths to another destination
C8_Witness ==
    /\ pc = "done"
    /\ \E i \in Idx(g) : NumNodes(g) >= 2 /\ \A n \in Idx(g) : ~EdgeExists(g, i, n)
    /\ \E i \in Idx(g), j \in Idx(g), h \in Idx(g) :
          /\ i # j /\ ~Reachable(g, i, j)
          /\ Len(Rec(i, h).ViaNeighborPaths) >= 1

(***************************************************************************)
(* C9: NewFromStruct returns an error and no graph whenever some edge of   *)
(* the description, wherever it stands, has a weight below 1 or above      *)
(* 1000, or when the description yields no nodes; it returns a graph       *)
(* without error for every other description, weights 1 and 1000 included. *)
(***************************************************************************)
DescriptionIsBad(d) ==
    \/ \E k \in 1..Len(d.Edges) : d.Edges[k].Weight \notin 1..1000
    \/ Len(d.Nodes) = 0 /\ Len(d.Edges) = 0

C9_LoadValidation ==
    pc # "input" =>
        /\ DescriptionIsBad(gj) => (pc = "failed" /\ err # "nil" /\ g = NoGraph)
        /\ ~DescriptionIsBad(gj) => (pc # "failed" /\ err = "nil" /\ NumNodes(g) >= 1)

\* the out-of-range weight stands last, after two valid edges
C9_Witness ==
    /\ pc = "failed"
    /\ Len(gj.Edges) >= 3
    /\ \A k \in 1..(Len(gj.Edges) - 1) : gj.Edges[k].Weight \in 1..1000
    /\ gj.Edges[Len(gj.Edges)].Weight \notin 1..1000

(***************************************************************************)
(* C10: CopyWithoutNode(x) on a graph of N nodes returns a graph of N-1    *)
(* nodes holding every node but x in ascending original-index order, a     *)
(* mapping that sends x to -1 and every other index to its new contiguous  *)
(* index, and an adjacency matrix in which the weight between two retained *)
(* nodes is their weight in the original and no other edge exists; the     *)
(* original graph is unchanged by the call.                                *)
(***************************************************************************)
\* the iteration that just ended called g.CopyWithoutNode(fromIdx - 1)
CopyJustMade ==
    /\ pc \in {"fill", "done"}
    /\ fromIdx >= 1
    /\ \E n \in Idx(g) : EdgeExists(g, fromIdx - 1, n)

NewIndexOf(i, x) == IF i < x THEN i ELSE i - 1

C10_CopyWithoutNode ==
    CopyJustMade =>
        LET x == fromIdx - 1
            N == NumNodes(g)
        IN /\ NumNodes(sub) = N - 1
           /\ DOMAIN oldToNew = 0..(N - 1)
           /\ oldToNew[x] = -1
           /\ \A i \in Idx(g) \ {x} :
                 /\ oldToNew[i] = NewIndexOf(i, x)
                 /\ sub.Nodes[oldToNew[i] + 1] = g.Nodes[i + 1]
                 /\ sub.NameToIndex[g.Nodes[i + 1]] = oldToNew[i]
           /\ DOMAIN sub.NameToIndex = Range(g.Nodes) \ {g.Nodes[x + 1]}
           /\ DOMAIN sub.AdjMatrix = 0..(N - 2)
           /\ \A i \in Idx(g) \ {x}, j \in Idx(g) \ {x} :
                 sub.AdjMatrix[oldToNew[i]][oldToNew[j]] = g.AdjMatrix[i][j]
           /\ \A a \in 0..(N - 2) : DOMAIN sub.AdjMatrix[a] = 0..(N - 2)
           /\ g = NewFromStruct(gj).g

\* the removed node is neither first nor last, has edges in both
\* directions, and two retained nodes on either side of it are joined
C10_Witness ==
    /\ CopyJustMade
    /\ LET x == fromIdx - 1
       IN /\ x >= 1 /\ x <= NumNodes(g) - 2
          /\ \E i \in Idx(g) : i # x /\ EdgeExists(g, i, x)
          /\ \E i \in Idx(g), j \in Idx(g) : i < x /\ x < j /\ EdgeExists(g, j, i)

(***************************************************************************)
(* C11: in the graph NewFromStruct builds, node indices are dense 0..N-1   *)
(* and assigned in this order: the declared nodes in declaration order (a  *)
(* repeated name keeps its first position), then every name first seen as  *)
(* an edge endpoint, walking the edges in declaration order and taking     *)
(* 'from' before 'to' within an edge; Index and Name are inverse.          *)
(***************************************************************************)
\* every name of the description in reading order: the declared nodes,
\* then From and To of each edge
MentionedNames(d) ==
    d.Nodes \o [k \in 1..(2 * Len(d.Edges)) |->
                   IF k % 2 = 1 THEN d.Edges[(k + 1) \div 2].From
                   ELSE d.Edges[k \div 2].To]

C11_IndexAssignment ==
    (pc # "input" /\ err = "nil") =>
        LET all == MentionedNames(gj)
            N == NumNodes(g)
        IN /\ Range(g.Nodes) = Range(all)
           /\ \A a \in 1..N, b \in 1..N :
                 a < b => FirstPos(all, g.Nodes[a]) < FirstPos(all, g.Nodes[b])
           /\ DOMAIN g.NameToIndex = Range(all)
           /\ \A n \in Range(all) : g.NameToIndex[n] \in 0..(N - 1)
           /\ \A i \in 0..(N - 1) : HasIndex(g, Name(g, i)) /\ Index(g, Name(g, i)) = i
           /\ \A n \in Range(all) : Name(g, Index(g, n)) = n

\* a declared name is repeated, and one edge brings two undeclared names
C11_Witness ==
    /\ pc = "loaded"
    /\ \E a \in 1..Len(gj.Nodes), b \in 1..Len(gj.Nodes) : a < b /\ gj.Nodes[a] = gj.Nodes[b]
    /\ \E k \in 1..Len(gj.Edges) :
          /\ gj.Edges[k].From # gj.Edges[k].To
          /\ gj.Edges[k].From \notin Range(gj.Nodes)
          /\ gj.Edges[k].To \notin Range(gj.Nodes)
          /\ \A h \in 1..(k - 1) :
                {gj.Edges[h].From, gj.Edges[h].To} \cap {gj.Edges[k].From, gj.Edges[k].To} = {}
          /\ Index(g, gj.Edges[k].To) = Index(g, gj.Edges[k].From) + 1

(***************************************************************************)
(* C12: every via-neighbor entry (path [S,N,...,D], distance d) recorded   *)
(* for a pair (S,D) satisfies d = w(S,N) + the shortest distance from N to *)
(* D in the graph with S removed, and d equals the sum of the edge weights *)
(* along the recorded path in the original graph.                          *)
(***************************************************************************)
\* the directed paths from N to D that do not visit S
PathsAvoiding(gr, S, N, D) == {p \in SimplePaths(gr, N, D) : S \notin Range(p)}

MinWeightAvoiding(gr, S, N, D) ==
    LET ws == {IdxPathWeight(gr, p) : p \in PathsAvoiding(gr, S, N, D)}
    IN CHOOSE w \in ws : \A v \in ws : w <= v

C12_ViaDistance ==
    AfterFloyd =>
        \A S \in Idx(g), D \in Idx(g) :
            \A k \in 1..Len(Rec(S, D).ViaNeighborPaths) :
                LET e == Rec(S, D).ViaNeighborPaths[k]
                IN /\ Len(e.Path) >= 2
                   /\ IsRoute(g, e.Path)
                   /\ LET N == IdxOfName(g, e.Path[2])
                      IN /\ PathsAvoiding(g, S, N, D) # {}
                         /\ e.Distance = Weight(g, S, N) + MinWeightAvoiding(g, S, N, D)
                   /\ e.Distance = RouteWeight(g, e.Path)

\* an entry whose neighbor N reaches D more cheaply through S than around it
C12_Witness ==
    /\ pc = "done"
    /\ \E S \in Idx(g), D \in Idx(g) :
          \E k \in 1..Len(Rec(S, D).ViaNeighborPaths) :
              LET e == Rec(S, D).ViaNeighborPaths[k]
                  N == IdxOfName(g, e.Path[2])
              IN /\ Len(e.Path) >= 3
                 /\ MinPathWeight(g, N, D) < MinWeightAvoiding(g, S, N, D)

(***************************************************************************)
(* C13: the via-neighbor step for a source S writes only the via-neighbor  *)
(* lists of the records whose from is S and reads nothing written by the   *)
(* step of another source: it leaves from, to, distance and paths of every *)
(* record and the graph unchanged, and running the per-source steps in any *)
(* order ends in the same result set as the sequential ascending-index     *)
(* pass.                                                                   *)
(***************************************************************************)
\* the loop of FillViaNeighborPaths as written: fromIdx = 0, 1, ..., N-1
RECURSIVE FillAscending(_, _, _)
FillAscending(gr, results, from) ==
    IF from >= NumNodes(gr) THEN results
    ELSE FillAscending(gr, FillSource(gr, results, from).Results, from + 1)

SequentialResults(gr) == FillAscending(gr, RunFloyd(gr).Results, 0)

\* what the step of source S records when it runs first, on the results
\* as RunFloyd returned them
AloneResults(gr, S) == FillSource(gr, RunFloyd(gr).Results, S).Results

SourceStepFrame ==
    (pc = "fill" /\ filled' # filled) =>
        \E S \in filled' \ filled :
            /\ filled' = filled \cup {S}
            /\ g' = g
            /\ r'.dist = r.dist
            /\ r'.pred = r.pred
            /\ Len(r'.Results) = Len(r.Results)
            /\ \A k \in 1..Len(r.Results) :
                  /\ r'.Results[k].From = r.Results[k].From
                  /\ r'.Results[k].To = r.Results[k].To
                  /\ r'.Results[k].Distance = r.Results[k].Distance
                  /\ r'.Results[k].Paths = r.Results[k].Paths
                  /\ r.Results[k].From # Name(g, S) => r'.Results[k] = r.Results[k]
            /\ \E alone \in {AloneResults(g, S)} :
                  \A k \in 1..Len(r.Results) :
                      r.Results[k].From = Name(g, S) =>
                          r'.Results[k].ViaNeighborPaths = alone[k].ViaNeighborPaths
            /\ pc' = "done" => r'.Results = SequentialResults(g)

C14_ViaMatchesDistance ==
    pc = "done" =>
        \A S \in Idx(g), D \in Idx(g) :
            S # D =>
                LET via == Rec(S, D).ViaNeighborPaths
                IN /\ Len(via) >= 1 <=> Rec(S, D).Distance # -1
                   /\ Len(via) >= 1 <=> r.dist[S][D] # Inf
                   /\ Len(via) >= 1 =>
                         /\ via[1].Distance = Rec(S, D).Distance
                         /\ via[1].Distance = r.dist[S][D]

\* a neighbor of S reaches D only through S while (S,D) keeps a via-neighbor
\* path, and for some pair the first generated candidate is not the best
C14_Witness ==
    /\ pc = "done"
    /\ \E S \in Idx(g), N \in Idx(g), D \in Idx(g) :
          /\ S # D /\ S # N /\ N # D
          /\ EdgeExists(g, S, N)
          /\ Reachable(g, N, D)
          /\ PathsAvoiding(g, S, N, D) = {}
          /\ Len(Rec(S, D).ViaNeighborPaths) >= 1
    /\ \E S \in Idx(g), D \in Idx(g) :
          /\ S # D
          /\ Len(Rec(S, D).ViaNeighborPaths) >= 2
          /\ GeneratedPool(S, D)[1].Distance > Rec(S, D).Distance

====
